---- MODULE Spec2Model ----
(***************************************************************************)
(* Model of the bit-packed chess board of python/src/bitboard.py and of   *)
(* the engine loop of python/src/random_bot.py.                            *)
(*                                                                         *)
(* The 267-bit integer `_bits` is modelled field by field:                 *)
(*   sq      : 64 four-bit pieces (bit 3 = side, bits 0..2 = kind),        *)
(*   wtm     : the side-to-move bit (1 = white),                           *)
(*   castles : the four castling bits (1 = k, 2 = q, 4 = K, 8 = Q),        *)
(*   ep      : the six-bit en-passant index (0 = none).                    *)
(* A square is named by its index 0..63 (a8 = 0, h1 = 63); the code's      *)
(* "address" is PIECE_SIZE times the index.  A packed move is the same     *)
(* integer as in the code.                                                 *)
(***************************************************************************)
EXTENDS Integers, Sequences, FiniteSets, TLC

\* ------------------------------------------------------------ constants
EMPTY == 0
PAWN == 1
KNIGHT == 2
BISHOP == 3
ROOK == 4
QUEEN == 5
KING == 6

BOARD_SIZE == 8
NUM_SQUARES == 64

DEST_SQ == 6
SRC_PIECE == 12
DEST_PIECE == 15
PROMO_PIECE == 18
MOVE_META == 21

CAPTURE == 1
CASTLE == 2
CHECK == 4
PROMOTION == 8

ROOK_DIRS == << <<-1,0>>, <<1,0>>, <<0,-1>>, <<0,1>> >>
BISHOP_DIRS == << <<-1,-1>>, <<-1,1>>, <<1,-1>>, <<1,1>> >>
KNIGHT_DIRS == << <<-2,-1>>, <<-2,1>>, <<2,-1>>, <<2,1>>,
                  <<-1,-2>>, <<-1,2>>, <<1,-2>>, <<1,2>> >>
ROYAL_DIRS == << <<-1,-1>>, <<-1,0>>, <<-1,1>>, <<0,-1>>,
                 <<0,1>>, <<1,-1>>, <<1,0>>, <<1,1>> >>

\* PIECE_STRING = " pnbrqk": the letter of a piece kind
PIECE_STRING == << " ", "p", "n", "b", "r", "q", "k" >>
pieceLetter(kind) == PIECE_STRING[kind + 1]

\* DIR_MAP has no entry for kind 0 nor for PAWN
DIR_MAP(kind) ==
    CASE kind = ROOK -> ROOK_DIRS
      [] kind = BISHOP -> BISHOP_DIRS
      [] kind = QUEEN -> ROYAL_DIRS
      [] kind = KNIGHT -> KNIGHT_DIRS
      [] kind = KING -> ROYAL_DIRS

\* the four packed castle moves (keys of CASTLE_MOVES, values of castleMap)
E8G8 == 4219268
E8C8 == 4219012
E1G1 == 4222908
E1C1 == 4222652
CASTLE_MOVES == (E8G8 :> 7) @@ (E8C8 :> 0) @@ (E1G1 :> 63) @@ (E1C1 :> 56)

\* ------------------------------------------------------------ bit helpers
Pow2(n) == 2 ^ n
Shr(x, n) == x \div Pow2(n)
\* (x >> at) & (2^width - 1)
Field(x, at, width) == Shr(x, at) % Pow2(width)
Bit(x, n) == Shr(x, n) % 2
\* x & ~(1 << n)
ClearBit(x, n) == IF Bit(x, n) = 1 THEN x - Pow2(n) ELSE x
\* x & y on the four castling bits
And4(x, y) ==
    Bit(x, 0) * Bit(y, 0) + 2 * Bit(x, 1) * Bit(y, 1)
    + 4 * Bit(x, 2) * Bit(y, 2) + 8 * Bit(x, 3) * Bit(y, 3)
Abs(x) == IF x < 0 THEN -x ELSE x

\* ------------------------------------------------------------ static helpers
indexPlusCoord(index, coord) ==
    LET result == index + coord[1] * BOARD_SIZE + coord[2]
        col == (index % BOARD_SIZE) + coord[2]
    IN  IF result < 0 \/ result > 63
        THEN << -1, TRUE >>
        ELSE << result, col < 0 \/ col > 7 >>

getPiece(bits, index) == bits.sq[index]
removePiece(bits, index) == [bits EXCEPT !.sq[index] = 0]
addPiece(bits, index, piece) == [bits EXCEPT !.sq[index] = piece]
pieceType(piece) == piece % 8
pieceSide(piece) == piece \div 8
areEnemies(p1, p2) == pieceSide(p1) # pieceSide(p2)
isBackRank(index) == index < 8 \/ index >= 56

\* BitBoard(bits), lines 88-96: bits is one integer, four bits for each of
\* the NUM_SQUARES squares below the side, castles and en-passant fields
BitBoard(bits) ==
    CHOOSE self \in { bits } : self.sq \in [0..(NUM_SQUARES - 1) -> 0..15]

\* ------------------------------------------------------------ getters
getCastles(self) == self.castles
whiteToMove(self) == self.wtm
sideToMove(self) == 8 * self.wtm
getEnpassant(self) == self.ep
isOpponentPiece(self, piece) == pieceSide(piece) # whiteToMove(self)

\* ------------------------------------------------------------ makeMove
\* lines 270-280: the rook of a castle move is relocated
castleRook(self, move, piece, bits) ==
    IF pieceType(piece) = KING /\ move \in DOMAIN CASTLE_MOVES
    THEN LET rookIndex == CASTLE_MOVES[move]
             newCol == IF rookIndex % 8 = 7 THEN 5 ELSE 3
             rookDest == (rookIndex \div 8) * 8 + newCol
         IN  addPiece(removePiece(bits, rookIndex), rookDest,
                      ROOK + sideToMove(self))
    ELSE bits

\* line 280: any king move clears both rights of the mover
kingClears(self, piece, castles) ==
    IF pieceType(piece) = KING
    THEN ClearBit(ClearBit(castles, IF whiteToMove(self) = 1 THEN 2 ELSE 0),
                  IF whiteToMove(self) = 1 THEN 3 ELSE 1)
    ELSE castles

\* lines 283-286: (move & 0b111) is the column of the source square
rookClears(self, move, piece, castles) ==
    IF pieceType(piece) = ROOK
    THEN ClearBit(castles, (IF whiteToMove(self) = 1 THEN 2 ELSE 0)
                           + (IF move % 8 = 7 THEN 0 ELSE 1))
    ELSE castles

\* lines 289-294: (move & (0b111 << 9)) >> 9 is the row of the destination
cornerClears(self, move, castles) ==
    LET oppRow == IF whiteToMove(self) = 1 THEN 7 ELSE 0
        destRow == Field(move, 9, 3)
    IN  IF destRow = oppRow
        THEN ClearBit(castles, (IF whiteToMove(self) = 1 THEN 0 ELSE 2)
                               + (IF move % 8 = 7 THEN 0 ELSE 1))
        ELSE castles

\* the complement of newCastles is written into the castles field
maskCastles_Complement(bits, newCastles) ==
    [bits EXCEPT !.castles = 15 - newCastles]

\* line 295: bits &= (newCastles << CASTLES_START) | ~(CASTLES_MASK << CASTLES_START)
maskCastles(bits, newCastles) ==
    [bits EXCEPT !.castles = And4(bits.castles, newCastles)]

castleLogic(self, move, piece, bits) ==
    maskCastles(castleRook(self, move, piece, bits),
                cornerClears(self, move,
                    rookClears(self, move, piece,
                        kingClears(self, piece, getCastles(self)))))

\* lines 330-332: the piece that lands on dest
endPieceOf(self, dest, promo, srcPiece) ==
    IF pieceType(srcPiece) = PAWN /\ (dest <= 7 \/ dest >= 56)
    THEN (IF promo > 0 THEN QUEEN ELSE promo) + sideToMove(self)
    ELSE srcPiece

\* the en-passant field is carried over unless the move is a double advance
newEnpassant_Kept(self, src, dest, srcPiece) ==
    IF pieceType(srcPiece) = PAWN /\ Abs(src - dest) = 16
    THEN (IF whiteToMove(self) = 1 THEN 40 ELSE 16) + (src % 8)
    ELSE getEnpassant(self)

\* lines 340-344: the en-passant field is cleared, then set by a pawn's
\* double advance to the square it skipped
newEnpassant(self, src, dest, srcPiece) ==
    IF pieceType(srcPiece) = PAWN /\ Abs(src - dest) = 16
    THEN (IF whiteToMove(self) = 1 THEN 40 ELSE 16) + (src % 8)
    ELSE 0

\* the side-to-move bit is left as it was
flipSide_Unchanged(wtm) == wtm

\* line 350: newBits ^= (1 << SIDE_TO_MOVE_START)
flipSide(wtm) == 1 - wtm

\* lines 330-352, on the bits castleLogic returned
finishMove(self, src, dest, promo, srcPiece, bits) ==
    [ sq |-> [i \in 0..63 |->
                IF i = dest THEN endPieceOf(self, dest, promo, srcPiece)
                \* captured piece is on same row as src, and same col as dest
                ELSE IF /\ pieceType(srcPiece) = PAWN
                        /\ dest = getEnpassant(self)
                        /\ i = (src \div 8) * 8 + (dest % 8)
                THEN 0
                ELSE bits.sq[i]],
      wtm |-> flipSide(bits.wtm),
      castles |-> bits.castles,
      ep |-> newEnpassant(self, src, dest, srcPiece) ]

\* lines 316-352, after the move has been decoded into src, dest and promo
applyMove(self, move, src, dest, promo) ==
    BitBoard(finishMove(self, src, dest, promo, getPiece(self, src),
                        castleLogic(self, move, getPiece(self, src),
                                    removePiece(self, src))))

\* makeMove on a packed move (the int branch, lines 310-314)
makeMove(self, move) ==
    applyMove(self, move, Field(move, 0, 6), Field(move, DEST_SQ, 6),
              Field(move, PROMO_PIECE, 3))

\* ------------------------------------------------------------ legal moves
\* findPiece: the first index holding the piece; NUM_SQUARES when the code
\* raises "Piece not found"
NotFound == 64
findPiece(self, piece) ==
    LET found == { i \in 0..(NUM_SQUARES - 1) : getPiece(self, i) = piece }
    IN  IF found = {} THEN NotFound
        ELSE CHOOSE i \in found : \A j \in found : i <= j

constructMove(srcSq, destSq, srcPiece, destPiece, meta, promoPiece) ==
    meta * Pow2(MOVE_META) + promoPiece * Pow2(PROMO_PIECE)
    + pieceType(destPiece) * Pow2(DEST_PIECE)
    + pieceType(srcPiece) * Pow2(SRC_PIECE)
    + destSq * Pow2(DEST_SQ) + srcSq

isMultiStep(kind) == pieceLetter(kind) \in {"r", "b", "q"}

\* one direction of legalMovesForNonPawns (the body of the for loop);
\* step is the pair <<destSq, outOfBounds>>
RECURSIVE nonPawnRay(_, _, _, _, _)
nonPawnRay(self, piece, index, d, step) ==
    LET destSq == step[1]
        outOfBounds == step[2]
        multiStep == isMultiStep(pieceType(piece))
    IN  IF outOfBounds THEN << >>
        ELSE LET destPiece == getPiece(self, destSq)
             IN  IF multiStep /\ destPiece = 0
                 THEN << constructMove(index, destSq, piece, 0, 0, 0) >>
                      \o nonPawnRay(self, piece, index, d,
                                    indexPlusCoord(destSq, d))
                 ELSE IF destPiece # 0 /\ areEnemies(piece, destPiece)
                 THEN << constructMove(index, destSq, piece, destPiece,
                                       CAPTURE, 0) >>
                 ELSE IF ~multiStep /\ destPiece = 0
                 THEN << constructMove(index, destSq, piece, destPiece, 0, 0) >>
                 ELSE << >>

RECURSIVE nonPawnDirs(_, _, _, _, _)
nonPawnDirs(self, piece, index, directions, k) ==
    IF k > Len(directions) THEN << >>
    ELSE nonPawnRay(self, piece, index, directions[k],
                    indexPlusCoord(index, directions[k]))
         \o nonPawnDirs(self, piece, index, directions, k + 1)

legalMovesForNonPawns(self, piece, index, directions) ==
    nonPawnDirs(self, piece, index, directions, 1)

PROMOS == << QUEEN, ROOK, BISHOP, KNIGHT >>

\* no en-passant capture is generated
pawnEnPassant_None(self, pawn, index, destSq) == << >>

\* lines 414-415: the diagonal square is the en-passant target
pawnEnPassant(self, pawn, index, destSq) ==
    IF destSq = getEnpassant(self) /\ destSq > 0
    THEN << constructMove(index, destSq, pawn, PAWN, CAPTURE, 0) >>
    ELSE << >>

\* the pawn-take loop for one diagonal (lines 403-415)
pawnTake(self, pawn, index, diag) ==
    LET step == indexPlusCoord(index, diag)
        destSq == step[1]
        destPiece == getPiece(self, destSq)
    IN  IF step[2] THEN << >>
        ELSE IF destPiece # 0 /\ areEnemies(pawn, destPiece)
        THEN IF isBackRank(destSq)
             THEN [i \in 1..4 |-> constructMove(index, destSq, pawn, destPiece,
                                                CAPTURE + PROMOTION, PROMOS[i])]
             ELSE << constructMove(index, destSq, pawn, destPiece, CAPTURE, 0) >>
        ELSE pawnEnPassant(self, pawn, index, destSq)

\* no double advance is generated
pawnDouble_None(self, pawn, index) == << >>

\* lines 428-432: the double advance from the pawn's start row
pawnDouble(self, pawn, index) ==
    IF (index \div BOARD_SIZE) = (IF whiteToMove(self) = 1 THEN 6 ELSE 1)
       /\ getPiece(self, index + 2 * BOARD_SIZE
                               * (IF whiteToMove(self) = 1 THEN -1 ELSE 1)) = 0
    THEN << constructMove(index,
                          index + 2 * BOARD_SIZE
                                  * (IF whiteToMove(self) = 1 THEN -1 ELSE 1),
                          pawn, 0, 0, 0) >>
    ELSE << >>

\* lines 417-434; destPiece is the variable the take loop leaves behind
pawnAdvances(self, pawn, index, destPiece) ==
    LET forward == IF whiteToMove(self) = 1 THEN -1 ELSE 1
        adv == indexPlusCoord(index, <<forward, 0>>)
        destSq == adv[1]
    IN  IF adv[2] \/ getPiece(self, destSq) # 0 THEN << >>
        ELSE IF isBackRank(destSq)
        THEN [i \in 1..4 |-> constructMove(index, destSq, pawn,
                                           destPiece, 0, PROMOS[i])]
        ELSE << constructMove(index, destSq, pawn, 0, 0, 0) >>
             \o pawnDouble(self, pawn, index)

legalMovesForPawn(self, pawn, index) ==
    LET forward == IF whiteToMove(self) = 1 THEN -1 ELSE 1
        left == indexPlusCoord(index, <<forward, -1>>)
        right == indexPlusCoord(index, <<forward, 1>>)
        \* the piece on the last diagonal square that was on the board
        destPiece == IF ~right[2] THEN getPiece(self, right[1])
                     ELSE getPiece(self, left[1])
    IN  pawnTake(self, pawn, index, <<forward, -1>>)
        \o pawnTake(self, pawn, index, <<forward, 1>>)
        \o pawnAdvances(self, pawn, index, destPiece)

legalMovesForPiece(self, piece, index) ==
    IF pieceType(piece) = PAWN
    THEN legalMovesForPawn(self, piece, index)
    ELSE legalMovesForNonPawns(self, piece, index, DIR_MAP(pieceType(piece)))

\* ------------------------------------------------------------ attacks
\* the while loop of isSquareAttackedByPiece: the first square of the ray
\* that is off the board or occupied
RECURSIVE rayEnd(_, _, _)
rayEnd(self, d, step) ==
    IF ~step[2] /\ getPiece(self, step[1]) = 0
    THEN rayEnd(self, d, indexPlusCoord(step[1], d))
    ELSE step

isSquareAttackedByPiece(self, index, target, directions, pieces) ==
    LET multiStep == \E p \in {"r", "b", "q"} : p \in pieces
    IN  \E k \in 1..Len(directions) :
            LET first == indexPlusCoord(index, directions[k])
                step == IF multiStep THEN rayEnd(self, directions[k], first)
                        ELSE first
                piece == getPiece(self, step[1])
            IN  /\ ~step[2]
                /\ pieceLetter(pieceType(piece)) \in pieces
                /\ areEnemies(piece, target)

isSquareAttacked(self, index, target) ==
    \/ isSquareAttackedByPiece(self, index, target, KNIGHT_DIRS, {"n"})
    \/ isSquareAttackedByPiece(self, index, target, ROOK_DIRS, {"r", "q"})
    \/ isSquareAttackedByPiece(self, index, target, BISHOP_DIRS, {"b", "q"})
    \/ isSquareAttackedByPiece(self, index, target, ROYAL_DIRS, {"k"})
    \/ LET forward == IF whiteToMove(self) = 1 THEN 1 ELSE -1
       IN  \E dc \in {1, -1} :
               LET step == indexPlusCoord(index, <<forward, dc>>)
                   piece == getPiece(self, step[1])
               IN  /\ ~step[2]
                   /\ pieceType(piece) = PAWN
                   /\ areEnemies(piece, target)

\* ------------------------------------------------------------ castling
legalCastleMove(self, shift) ==
    LET white == whiteToMove(self) = 1
        mask == Pow2(shift + (IF white THEN 2 ELSE 0))
        castle == Bit(getCastles(self), shift + (IF white THEN 2 ELSE 0)) * mask
        isKingside == shift = 0
        row == IF white THEN 56 ELSE 0
        between == IF isKingside THEN {5, 6} ELSE {1, 2, 3}
        transits == IF isKingside THEN {4, 5, 6} ELSE {2, 3, 4}
        castleMap == (1 :> E8G8) @@ (2 :> E8C8) @@ (4 :> E1G1) @@ (8 :> E1C1)
    IN  IF castle = 0 THEN << >>
        ELSE IF \E s \in between : getPiece(self, row + s) # 0 THEN << >>
        ELSE IF \E t \in transits :
                    isSquareAttacked(self, t + row, sideToMove(self) + KING)
        THEN << >>
        ELSE << castleMap[castle] >>

legalCastleMoves(self) == legalCastleMove(self, 0) \o legalCastleMove(self, 1)



\* ------------------------------------------------------------ legality
\* An uncaught Python exception is modelled by the marker RAISED in place
\* of a move (findPiece's "Piece not found", DIR_MAP's KeyError).
RAISED == -1

\* the loop body without the test of the mover's own king
checkedOn_NoOwnKingTest(self, move, postMoveBoard) ==
    LET ourKing == KING + sideToMove(self)
        ourKingIndex == findPiece(postMoveBoard, ourKing)
        otherKing == KING + (IF whiteToMove(self) = 1 THEN 0 ELSE 8)
        otherKingIndex == findPiece(postMoveBoard, otherKing)
    IN  IF ourKingIndex = NotFound THEN << RAISED >>
        ELSE IF otherKingIndex = NotFound THEN << RAISED >>
        ELSE IF isSquareAttacked(postMoveBoard, otherKingIndex, otherKing)
        THEN << move + CHECK * Pow2(MOVE_META) >>
        ELSE << move >>

\* the body of kingCheckAnalysis's loop on the board makeMove returned:
\* << >> when the move is dropped
checkedOn(self, move, postMoveBoard) ==
    LET ourKing == KING + sideToMove(self)
        ourKingIndex == findPiece(postMoveBoard, ourKing)
        otherKing == KING + (IF whiteToMove(self) = 1 THEN 0 ELSE 8)
        otherKingIndex == findPiece(postMoveBoard, otherKing)
    IN  IF ourKingIndex = NotFound THEN << RAISED >>
        ELSE IF isSquareAttacked(postMoveBoard, ourKingIndex, ourKing)
        THEN << >>
        ELSE IF otherKingIndex = NotFound THEN << RAISED >>
        ELSE IF isSquareAttacked(postMoveBoard, otherKingIndex, otherKing)
        THEN << move + CHECK * Pow2(MOVE_META) >>
        ELSE << move >>

checkedMove(self, move) == checkedOn(self, move, makeMove(self, move))

\* the loop of kingCheckAnalysis over moves[lo..hi], in list order
RECURSIVE kingCheckFrom(_, _, _, _)
kingCheckFrom(self, moves, lo, hi) ==
    IF lo > hi THEN << >>
    ELSE IF lo = hi THEN checkedMove(self, moves[lo])
    ELSE kingCheckFrom(self, moves, lo, (lo + hi) \div 2)
         \o kingCheckFrom(self, moves, ((lo + hi) \div 2) + 1, hi)

kingCheckAnalysis(self, moves) == kingCheckFrom(self, moves, 1, Len(moves))

\* the body of computeLegalMoves's for loop at square i
pieceMoves(self, i, piece) ==
    IF piece = 0 \/ isOpponentPiece(self, piece) THEN << >>
    ELSE IF pieceType(piece) \notin 1..6 THEN << RAISED >>
    ELSE legalMovesForPiece(self, piece, i)

\* the for loop of computeLegalMoves over squares lo..hi, in index order
RECURSIVE piecesFrom(_, _, _)
piecesFrom(self, lo, hi) ==
    IF lo = hi THEN pieceMoves(self, lo, getPiece(self, lo))
    ELSE piecesFrom(self, lo, (lo + hi) \div 2)
         \o piecesFrom(self, ((lo + hi) \div 2) + 1, hi)

hasRaised(moves) == \E k \in 1..Len(moves) : moves[k] = RAISED

moveMeta(move) == Field(move, MOVE_META, 4)

\* list.sort(key = the four meta bits, reverse = True): the sort is stable,
\* so moves of equal key keep their order
RECURSIVE sortFrom(_, _)
sortFrom(moves, key) ==
    IF key < 0 THEN << >>
    ELSE SelectSeq(moves, LAMBDA m : moveMeta(m) = key)
         \o sortFrom(moves, key - 1)
\* the list is left in generation order
sortMoves_Unsorted(moves) == moves

sortMoves(moves) == sortFrom(moves, 15)

\* computeLegalMoves: the list assigned to _legalMoves, or << RAISED >>
\* when the call ends in an exception (and assigns nothing)
sortOrRaise(checked) ==
    IF hasRaised(checked) THEN << RAISED >> ELSE sortMoves(checked)
checkOrRaise(self, pieces) ==
    IF hasRaised(pieces) THEN << RAISED >>
    ELSE kingCheckAnalysis(self, pieces \o legalCastleMoves(self))
computeLegalMoves(self) ==
    sortOrRaise(checkOrRaise(self, piecesFrom(self, 0, NUM_SQUARES - 1)))

\* isCheckMate, given the list getLegalMoves returns; "raised" when
\* findPiece finds no king of the side to move
isCheckMate(self, moves) ==
    LET kingIndex == findPiece(self, sideToMove(self) + KING)
    IN  IF kingIndex = NotFound THEN "raised"
        ELSE IF Len(moves) = 0
                /\ isSquareAttacked(self, kingIndex, getPiece(self, kingIndex))
        THEN "mate"
        ELSE "no"

\* the number of move sequences of the given length: getLegalMoves on the
\* position, makeMove on each move of the list, and so on from the result
RECURSIVE perftOver(_, _, _, _, _)
perftList(self, moves, depth) == perftOver(self, moves, 1, Len(moves), depth)
perft(self, depth) == perftList(self, computeLegalMoves(self), depth)
perftOver(self, moves, lo, hi, depth) ==
    IF hasRaised(moves) \/ lo > hi THEN 0
    ELSE IF depth = 1 THEN hi - lo + 1
    ELSE IF lo = hi THEN perft(makeMove(self, moves[lo]), depth - 1)
    ELSE perftOver(self, moves, lo, (lo + hi) \div 2, depth)
         + perftOver(self, moves, ((lo + hi) \div 2) + 1, hi, depth)

\* ------------------------------------------------------------ move text
\* Text is a sequence of one-character strings.
FILES == << "a", "b", "c", "d", "e", "f", "g", "h" >>
DIGITS == << "0", "1", "2", "3", "4", "5", "6", "7", "8", "9" >>
\* ord(ch) - ord('a')
fileOrd(ch) == CHOOSE k \in 0..7 : FILES[k + 1] = ch
\* int(ch)
digitVal(ch) == CHOOSE k \in 0..9 : DIGITS[k + 1] = ch

algebraicToIndex(algebraic) ==
    BOARD_SIZE * (8 - digitVal(algebraic[2])) + fileOrd(algebraic[1])

indexToAlgebraic(index) ==
    << FILES[(index % BOARD_SIZE) + 1], DIGITS[(8 - (index \div BOARD_SIZE)) + 1] >>

\* pieces = ["", "", "r", "b", "n", "q", ""], indexed by the promotion kind
moveStrPieces == << << >>, << >>, << "r" >>, << "b" >>, << "n" >>, << "q" >>, << >> >>
moveStr(move) ==
    indexToAlgebraic(Field(move, 0, 6))
    \o indexToAlgebraic(Field(move, DEST_SQ, 6))
    \o moveStrPieces[Field(move, PROMO_PIECE, 3) + 1]

PIECE_MAP == ("r" :> ROOK) @@ ("b" :> BISHOP) @@ ("n" :> KNIGHT) @@ ("q" :> QUEEN)

\* the str branch of makeMove (lines 305-309): the packed move is rebuilt
\* from the two squares alone
textMove(text) ==
    algebraicToIndex(SubSeq(text, 3, 4)) * Pow2(DEST_SQ)
    + algebraicToIndex(SubSeq(text, 1, 2))
textPromo(text) == IF Len(text) < 5 THEN 0 ELSE PIECE_MAP[text[5]]
makeMoveStr(self, text) ==
    applyMove(self, textMove(text), algebraicToIndex(SubSeq(text, 1, 2)),
              algebraicToIndex(SubSeq(text, 3, 4)), textPromo(text))

\* ------------------------------------------------------------ createFromFen
\* A FEN is given as fenArr is after the split: the rows of the board field,
\* the side letter, the letters of the castling field and the en-passant
\* field ("-" or a square).
fenPieceMap == ("p" :> PAWN) @@ ("r" :> ROOK) @@ ("b" :> BISHOP)
               @@ ("n" :> KNIGHT) @@ ("q" :> QUEEN) @@ ("k" :> KING)
fenLower == ("P" :> "p") @@ ("R" :> "r") @@ ("B" :> "b") @@ ("N" :> "n")
            @@ ("Q" :> "q") @@ ("K" :> "k")
isDigit(ch) == \E k \in 0..9 : DIGITS[k + 1] = ch
isLower(ch) == ch \in DOMAIN fenPieceMap
lower(ch) == IF ch \in DOMAIN fenLower THEN fenLower[ch] ELSE ch

RECURSIVE fenRow(_, _, _)
\* the inner loop over one row; acc = << sq, index >>
fenRow(row, c, acc) ==
    IF c > Len(row) \/ acc[2] >= NUM_SQUARES THEN acc
    ELSE IF isDigit(row[c])
    THEN fenRow(row, c + 1, << acc[1], acc[2] + digitVal(row[c]) >>)
    ELSE LET player == IF isLower(row[c]) THEN 0 ELSE 1
             piece == 8 * player + fenPieceMap[lower(row[c])]
         IN  fenRow(row, c + 1,
                    << [acc[1] EXCEPT ![acc[2]] = piece], acc[2] + 1 >>)

RECURSIVE fenRows(_, _, _)
fenRows(rows, r, acc) ==
    IF r > Len(rows) \/ acc[2] >= NUM_SQUARES THEN acc[1]
    ELSE fenRows(rows, r + 1, fenRow(rows[r], 1, acc))

\* castles |= bit
SetBit(x, n) == IF Bit(x, n) = 1 THEN x ELSE x + Pow2(n)
RECURSIVE fenCastles(_, _, _)
fenCastles(letters, k, castles) ==
    IF k > Len(letters) THEN castles
    ELSE LET tmp == IF isLower(letters[k]) THEN 0 ELSE 2
         IN  fenCastles(letters, k + 1,
                 IF lower(letters[k]) = "k" THEN SetBit(castles, tmp)
                 ELSE IF lower(letters[k]) = "q" THEN SetBit(castles, tmp + 1)
                 ELSE castles)

createFromFen(fen) ==
    BitBoard(
    [ sq |-> fenRows(fen.rows, 1, << [i \in 0..63 |-> 0], 0 >>),
      wtm |-> IF fen.side = "w" THEN 1 ELSE 0,
      castles |-> fenCastles(fen.castles, 1, 0),
      ep |-> IF fen.ep # << "-" >> THEN algebraicToIndex(fen.ep) ELSE 0 ])

\* ------------------------------------------------------------ positions
\* STARTING_FEN, KING_CHECK_BLACK and KING_CHECK_WHITE are the constants of
\* the source; the others are small positions that exercise castling,
\* promotion, en passant, mate and stalemate.
STARTING_FEN ==
    [ rows |-> << << "r", "n", "b", "q", "k", "b", "n", "r" >>,
                  << "p", "p", "p", "p", "p", "p", "p", "p" >>,
                  << "8" >>,
                  << "8" >>,
                  << "8" >>,
                  << "8" >>,
                  << "P", "P", "P", "P", "P", "P", "P", "P" >>,
                  << "R", "N", "B", "Q", "K", "B", "N", "R" >> >>,
      side |-> "w", castles |-> << "K", "Q", "k", "q" >>, ep |-> << "-" >> ]
KING_CHECK_BLACK ==
    [ rows |-> << << "3", "k", "4" >>,
                  << "8" >>,
                  << "3", "P", "4" >>,
                  << "8" >>,
                  << "8" >>,
                  << "8" >>,
                  << "8" >>,
                  << "K", "7" >> >>,
      side |-> "b", castles |-> << "-" >>, ep |-> << "-" >> ]
KING_CHECK_WHITE ==
    [ rows |-> << << "3", "k", "4" >>,
                  << "8" >>,
                  << "8" >>,
                  << "8" >>,
                  << "8" >>,
                  << "3", "p", "4" >>,
                  << "8" >>,
                  << "3", "K", "4" >> >>,
      side |-> "w", castles |-> << "-" >>, ep |-> << "-" >> ]
CASTLE_PAWN_FEN ==
    [ rows |-> << << "4", "k", "2", "r" >>,
                  << "8" >>,
                  << "8" >>,
                  << "8" >>,
                  << "8" >>,
                  << "8" >>,
                  << "6", "p", "1" >>,
                  << "4", "K", "2", "R" >> >>,
      side |-> "w", castles |-> << "K", "k" >>, ep |-> << "-" >> ]
PROMOTION_FEN ==
    [ rows |-> << << "1", "n", "6" >>,
                  << "P", "7" >>,
                  << "8" >>,
                  << "3", "k", "4" >>,
                  << "8" >>,
                  << "8" >>,
                  << "7", "p" >>,
                  << "4", "K", "3" >> >>,
      side |-> "w", castles |-> << "-" >>, ep |-> << "-" >> ]

DOUBLE_ADVANCE_FEN ==
    [ rows |-> << << "4", "k", "3" >>,
                  << "3", "p", "4" >>,
                  << "8" >>,
                  << "4", "P", "3" >>,
                  << "8" >>,
                  << "8" >>,
                  << "8" >>,
                  << "4", "K", "3" >> >>,
      side |-> "b", castles |-> << "-" >>, ep |-> << "-" >> ]
ENPASSANT_KNIGHT_FEN ==
    [ rows |-> << << "4", "k", "3" >>,
                  << "8" >>,
                  << "8" >>,
                  << "3", "p", "P", "3" >>,
                  << "2", "N", "5" >>,
                  << "8" >>,
                  << "8" >>,
                  << "4", "K", "3" >> >>,
      side |-> "w", castles |-> << "-" >>, ep |-> << "d", "6" >> ]
ENPASSANT_PIN_FEN ==
    [ rows |-> << << "8" >>,
                  << "8" >>,
                  << "8" >>,
                  << "K", "2", "p", "P", "2", "r" >>,
                  << "8" >>,
                  << "8" >>,
                  << "8" >>,
                  << "4", "k", "3" >> >>,
      side |-> "w", castles |-> << "-" >>, ep |-> << "d", "6" >> ]
PAWN_MATE_FEN ==
    [ rows |-> << << "7", "k" >>,
                  << "6", "P", "1" >>,
                  << "5", "N", "K", "1" >>,
                  << "8" >>,
                  << "8" >>,
                  << "8" >>,
                  << "8" >>,
                  << "8" >> >>,
      side |-> "b", castles |-> << "-" >>, ep |-> << "-" >> ]
STALEMATE_FEN ==
    [ rows |-> << << "7", "k" >>,
                  << "5", "Q", "2" >>,
                  << "6", "K", "1" >>,
                  << "8" >>,
                  << "8" >>,
                  << "8" >>,
                  << "8" >>,
                  << "8" >> >>,
      side |-> "b", castles |-> << "-" >>, ep |-> << "-" >> ]
CORNER_CAPTURE_FEN ==
    [ rows |-> << << "r", "7" >>,
                  << "k", "P", "6" >>,
                  << "8" >>,
                  << "8" >>,
                  << "8" >>,
                  << "8" >>,
                  << "8" >>,
                  << "4", "K", "3" >> >>,
      side |-> "w", castles |-> << "-" >>, ep |-> << "-" >> ]
CORNER_PAWN_FEN ==
    [ rows |-> << << "r", "3", "k", "3" >>,
                  << "p", "P", "6" >>,
                  << "8" >>,
                  << "8" >>,
                  << "8" >>,
                  << "8" >>,
                  << "8" >>,
                  << "4", "K", "3" >> >>,
      side |-> "w", castles |-> << "q" >>, ep |-> << "-" >> ]
PROMOTION_MATE_FEN ==
    [ rows |-> << << "k", "7" >>,
                  << "2", "P", "5" >>,
                  << "1", "K", "6" >>,
                  << "8" >>,
                  << "8" >>,
                  << "8" >>,
                  << "8" >>,
                  << "8" >> >>,
      side |-> "w", castles |-> << "-" >>, ep |-> << "-" >> ]

\* white may castle king-side, which gives check on the f-file, and has a
\* second rook away from the corners
CASTLE_CHECK_FEN ==
    [ rows |-> << << "5", "k", "2" >>,
                  << "8" >>,
                  << "8" >>,
                  << "8" >>,
                  << "8" >>,
                  << "8" >>,
                  << "7", "R" >>,
                  << "4", "K", "2", "R" >> >>,
      side |-> "w", castles |-> << "K" >>, ep |-> << "-" >> ]

FENS == << KING_CHECK_BLACK, KING_CHECK_WHITE, CASTLE_PAWN_FEN, PROMOTION_FEN,
           DOUBLE_ADVANCE_FEN, ENPASSANT_KNIGHT_FEN, ENPASSANT_PIN_FEN,
           PAWN_MATE_FEN, STALEMATE_FEN, CORNER_CAPTURE_FEN, CORNER_PAWN_FEN,
           PROMOTION_MATE_FEN, CASTLE_CHECK_FEN >>

\* ------------------------------------------------------------ state
\* board      : the BitBoard the caller holds (Engine.board), its _bits
\* cached     : board._legalMoves is not None
\* legalMoves : board._legalMoves when cached
\* out        : what Engine.go printed for this board ("" before any go)
\* crashed    : an exception left the call uncaught; the program has ended
\* prev, last : the board the last makeMove was called on, as it is after
\*              the call, and the move of that call
\* ply        : the number of makeMove calls so far
\* threads    : the getLegalMoves calls that threads sharing the board are
\*              in: for each thread the line it has reached (pc), the local
\*              list moves, the list its last call returned and its number
\*              of calls, and how often the list was computed and how often
\*              _legalMoves was assigned
VARIABLES board, cached, legalMoves, out, crashed, prev, last, ply, threads
vars == << board, cached, legalMoves, out, crashed, prev, last, ply, threads >>

\* the longest sequence of makeMove calls explored
MaxPly == 2

NoMove == [kind |-> "none", move |-> 0, text |-> << >>]

\* the threads that may share one BitBoard
THREADS == { "t1", "t2" }
\* the most getLegalMoves calls one thread makes
MaxCalls == 2
NoCalls ==
    [ pc |-> [t \in THREADS |-> "idle"],
      moves |-> [t \in THREADS |-> << >>],
      returned |-> [t \in THREADS |-> << >>],
      calls |-> [t \in THREADS |-> 0],
      computes |-> 0,
      assigns |-> 0 ]

InitFrom(fens) ==
    /\ board \in { createFromFen(fens[i]) : i \in 1..Len(fens) }
    /\ cached = FALSE
    /\ legalMoves = << >>
    /\ out = ""
    /\ crashed = FALSE
    /\ prev = board
    /\ last = NoMove
    /\ ply = 0
    /\ threads = NoCalls

Init == InitFrom(FENS)

\* getLegalMoves (lines 243-246): compute and cache on the first call
GetLegalMoves ==
    /\ ~crashed
    /\ ~cached
    /\ \E moves \in { computeLegalMoves(board) } :
           IF hasRaised(moves)
           THEN /\ crashed' = TRUE
                /\ UNCHANGED << cached, legalMoves >>
           ELSE /\ cached' = TRUE
                /\ legalMoves' = moves
                /\ crashed' = FALSE
    /\ UNCHANGED << board, out, prev, last, ply, threads >>

\* the instance makeMove was called on is updated to the bits it returns
selfBits_Updated(self, newBits) == newBits

\* makeMove reads self._bits (lines 317 and 322) and assigns it nowhere: the
\* instance it was called on holds the same _bits after the call
selfBits(self, newBits) == self

\* the new BitBoard a makeMove call returns replaces the caller's board
Moved(newBits, move) ==
    /\ board' = newBits
    /\ cached' = FALSE
    /\ legalMoves' = << >>
    /\ out' = ""
    /\ prev' = selfBits(board, newBits)
    /\ last' = move
    /\ ply' = ply + 1
    /\ UNCHANGED << crashed, threads >>

\* makeMove on a packed move taken from the list getLegalMoves returned
MakeMove ==
    /\ ~crashed
    /\ cached
    /\ ply < MaxPly
    /\ \E k \in 1..Len(legalMoves) :
           Moved(makeMove(board, legalMoves[k]),
                 [kind |-> "int", move |-> legalMoves[k], text |-> << >>])

\* makeMove on move text, as Engine.position calls it for every word after
\* "moves": the text of a legal move of the position
MakeMoveStr ==
    /\ ~crashed
    /\ cached
    /\ ply < MaxPly
    /\ \E k \in 1..Len(legalMoves) :
           LET text == moveStr(legalMoves[k])
           IN  Moved(makeMoveStr(board, text),
                     [kind |-> "str", move |-> textMove(text), text |-> text])

\* Engine.go (lines 44-52), given what getLegalMoves and isCheckMate return
GoWith(moves, mate) ==
    IF hasRaised(moves)
    THEN /\ crashed' = TRUE
         /\ UNCHANGED << cached, legalMoves, out >>
    ELSE /\ cached' = TRUE
         /\ legalMoves' = moves
         /\ IF mate = "raised"
            THEN crashed' = TRUE /\ out' = out
            ELSE IF mate = "mate"
            THEN crashed' = FALSE /\ out' = "CHECK MATED SON"
            ELSE IF Len(moves) = 0
            THEN crashed' = FALSE /\ out' = "stale mate...??"
            \* "bestmove " + random.choice(moves) adds an int to a str:
            \* TypeError
            ELSE crashed' = TRUE /\ out' = out

Go ==
    /\ ~crashed
    /\ out = ""
    /\ \E moves \in { IF cached THEN legalMoves
                       ELSE computeLegalMoves(board) } :
           \E mate \in { IF hasRaised(moves) THEN "raised"
                          ELSE isCheckMate(board, moves) } :
               GoWith(moves, mate)
    /\ UNCHANGED << board, prev, last, ply, threads >>

Next == GetLegalMoves \/ MakeMove \/ MakeMoveStr \/ Go

Spec == Init /\ [][Next]_vars

\* the same operations from the standard starting position alone
InitStart == InitFrom(<< STARTING_FEN >>)
SpecStart == InitStart /\ [][Next]_vars

\* ------------------------------------------------------------ shared board
\* getLegalMoves called by threads that share one BitBoard.  A thread may be
\* suspended between any two lines; each action is one line of the call.

\* a thread calls getLegalMoves and arrives at line 244
CallGetLegalMoves(t) ==
    /\ threads.pc[t] = "idle"
    /\ threads.calls[t] < MaxCalls
    /\ threads' = [threads EXCEPT !.pc[t] = "244", !.calls[t] = @ + 1]
    /\ UNCHANGED << board, cached, legalMoves, out, crashed, prev, last, ply >>

\* line 244: if self._legalMoves is None
TestCache(t) ==
    /\ threads.pc[t] = "244"
    /\ threads' = [threads EXCEPT !.pc[t] = IF cached THEN "246" ELSE "544"]
    /\ UNCHANGED << board, cached, legalMoves, out, crashed, prev, last, ply >>

\* lines 544-545 of computeLegalMoves: if self._legalMoves is not None: return
TestCacheAgain(t) ==
    /\ threads.pc[t] = "544"
    /\ threads' = [threads EXCEPT !.pc[t] = IF cached THEN "246" ELSE "546"]
    /\ UNCHANGED << board, cached, legalMoves, out, crashed, prev, last, ply >>

\* lines 546-554: the list is built in the local moves; an exception ends
\* the thread
ComputeMoves(t) ==
    /\ threads.pc[t] = "546"
    /\ \E moves \in { computeLegalMoves(board) } :
           threads' = [threads EXCEPT
                          !.pc[t] = IF hasRaised(moves) THEN "raised" ELSE "556",
                          !.moves[t] = moves,
                          !.computes = @ + 1]
    /\ UNCHANGED << board, cached, legalMoves, out, crashed, prev, last, ply >>

\* line 556: self._legalMoves = moves
AssignMoves(t) ==
    /\ threads.pc[t] = "556"
    /\ legalMoves' = threads.moves[t]
    /\ cached' = TRUE
    /\ threads' = [threads EXCEPT !.pc[t] = "246", !.assigns = @ + 1]
    /\ UNCHANGED << board, out, crashed, prev, last, ply >>

\* line 246: return self._legalMoves
ReturnMoves(t) ==
    /\ threads.pc[t] = "246"
    /\ threads' = [threads EXCEPT !.pc[t] = "idle", !.returned[t] = legalMoves]
    /\ UNCHANGED << board, cached, legalMoves, out, crashed, prev, last, ply >>

NextShared ==
    \E t \in THREADS :
        \/ CallGetLegalMoves(t)
        \/ TestCache(t)
        \/ TestCacheAgain(t)
        \/ ComputeMoves(t)
        \/ AssignMoves(t)
        \/ ReturnMoves(t)

SpecShared == Init /\ [][NextShared]_vars

\* ------------------------------------------------------------ Engine.position
\* the words a "position startpos moves ..." line may carry: moves of the
\* opening, a move from an empty square, a move of an enemy piece, a
\* promotion letter on a move that promotes nothing, and a fifth letter that
\* is no key of PIECE_MAP
WORDS == { << "e", "2", "e", "4" >>, << "e", "7", "e", "5" >>,
           << "g", "1", "f", "3" >>, << "b", "8", "c", "6" >>,
           << "e", "4", "e", "5" >>,
           << "d", "2", "d", "4", "q" >>, << "e", "2", "e", "4", "k" >> }

\* line 307: PIECE_MAP[move[4]] raises KeyError for a fifth letter that is
\* not one of r, b, n, q
makeMoveStrRaises(text) == Len(text) >= 5 /\ text[5] \notin DOMAIN PIECE_MAP

\* one round of the loop of Engine.position (lines 39-40):
\* self.board = self.board.makeMove(move), for any word of the line.  The
\* "Illegal move" text makeMove prints (lines 321-324) changes no state.
PositionMove ==
    /\ ~crashed
    /\ ply < MaxPly
    /\ \E text \in WORDS :
           IF makeMoveStrRaises(text)
           THEN /\ crashed' = TRUE
                /\ UNCHANGED << board, cached, legalMoves, out, prev, last, ply,
                                threads >>
           ELSE Moved(makeMoveStr(board, text),
                      [kind |-> "word", move |-> textMove(text), text |-> text])

NextPosition == GetLegalMoves \/ PositionMove \/ Go

\* the protocol loop on the standard starting position
SpecPosition == InitStart /\ [][NextPosition]_vars

\* ------------------------------------------------------------ games
\* Engine.position on "position startpos moves ..." (lines 36-40): the words
\* are applied one after the other from the standard starting position
RECURSIVE positionMoves(_, _, _)
positionMoves(self, words, k) ==
    IF k > Len(words) \/ whiteToMove(self) \notin { 0, 1 } THEN self
    ELSE positionMoves(makeMoveStr(self, words[k]), words, k + 1)

\* two openings of legal moves: after the first the bishop on b2 can take
\* the rook on h8; the second has taken it and black's f8 and g8 are empty
BISHOP_LINE ==
    << << "b", "2", "b", "3" >>, << "g", "7", "g", "6" >>,
       << "c", "1", "b", "2" >>, << "g", "8", "h", "6" >> >>
ROOKLESS_LINE ==
    << << "b", "2", "b", "3" >>, << "g", "7", "g", "6" >>,
       << "c", "1", "b", "2" >>, << "g", "8", "h", "6" >>,
       << "b", "2", "h", "8" >>, << "f", "8", "g", "7" >>,
       << "h", "8", "g", "7" >>, << "a", "7", "a", "6" >>,
       << "g", "7", "d", "4" >> >>

InitGame ==
    /\ board \in { positionMoves(createFromFen(STARTING_FEN), BISHOP_LINE, 1),
                    positionMoves(createFromFen(STARTING_FEN), ROOKLESS_LINE, 1) }
    /\ cached = FALSE
    /\ legalMoves = << >>
    /\ out = ""
    /\ crashed = FALSE
    /\ prev = board
    /\ last = NoMove
    /\ ply = 0
    /\ threads = NoCalls

\* the game continued from these openings
SpecGame == InitGame /\ [][Next]_vars

\* ------------------------------------------------------------ rules of chess
\* What the claims mean by "attacked": the movement rules of chess, stated
\* on rows and columns and independent of the code's attack detector.
Row(i) == i \div 8
Col(i) == i % 8
Sgn(x) == IF x > 0 THEN 1 ELSE IF x < 0 THEN -1 ELSE 0
Max(x, y) == IF x > y THEN x ELSE y
Dist(a, b) == Max(Abs(Row(a) - Row(b)), Abs(Col(a) - Col(b)))
SameLine(a, b) == Row(a) = Row(b) \/ Col(a) = Col(b)
SameDiagonal(a, b) == Abs(Row(a) - Row(b)) = Abs(Col(a) - Col(b))
\* the squares strictly between a and b, which share a line or a diagonal
Between(a, b) ==
    { a + k * (8 * Sgn(Row(b) - Row(a)) + Sgn(Col(b) - Col(a))) :
        k \in 1..(Dist(a, b) - 1) }
ClearPath(sq, a, b) == \A s \in Between(a, b) : sq[s] = 0

\* the piece standing on `from` attacks the square `to`
PieceAttacks(sq, from, to) ==
    LET kind == sq[from] % 8
        white == sq[from] \div 8 = 1
        dr == Row(to) - Row(from)
        dc == Col(to) - Col(from)
    IN  /\ from # to
        /\ sq[from] # 0
        /\ CASE kind = KNIGHT -> {Abs(dr), Abs(dc)} = {1, 2}
             [] kind = KING -> Dist(from, to) = 1
             [] kind = ROOK -> SameLine(from, to) /\ ClearPath(sq, from, to)
             [] kind = BISHOP -> SameDiagonal(from, to) /\ ClearPath(sq, from, to)
             [] kind = QUEEN -> (SameLine(from, to) \/ SameDiagonal(from, to))
                                /\ ClearPath(sq, from, to)
             [] kind = PAWN -> Abs(dc) = 1 /\ dr = (IF white THEN -1 ELSE 1)
             [] OTHER -> FALSE

\* some piece of colour `side` (1 = white) attacks the square
AttackedBy(sq, to, side) ==
    \E from \in 0..63 : sq[from] \div 8 = side /\ PieceAttacks(sq, from, to)

KingSquares(sq, side) == { i \in 0..63 : sq[i] = KING + 8 * side }
OneKingEach(sq) ==
    Cardinality(KingSquares(sq, 0)) = 1 /\ Cardinality(KingSquares(sq, 1)) = 1
\* the king of colour `side` is attacked by a piece of the other colour
KingAttacked(sq, side) ==
    \E k \in KingSquares(sq, side) : AttackedBy(sq, k, 1 - side)

moveSrc(move) == Field(move, 0, 6)
moveDest(move) == Field(move, DEST_SQ, 6)
movePromo(move) == Field(move, PROMO_PIECE, 3)
givesCheck(move) == Bit(move, MOVE_META + 2) = 1
\* the candidate moves of a position, before kingCheckAnalysis
candidates(self) == piecesFrom(self, 0, NUM_SQUARES - 1) \o legalCastleMoves(self)

\* ------------------------------------------------------------ claims

\* C1: after makeMove of a move that getLegalMoves returned, on a position
\* with one king per colour, the king of the side that moved is not
\* attacked by any piece of the other colour.
C1_MoverKingSafe ==
    (last.kind = "int" /\ OneKingEach(prev.sq))
        => ~KingAttacked(board.sq, prev.wtm)

\* C1 witness: a legal move was applied in a position where the legality
\* filter had a candidate to drop.
C1_Witness ==
    /\ last.kind = "int"
    /\ OneKingEach(prev.sq)
    /\ Len(computeLegalMoves(prev)) < Len(candidates(prev))

\* C2: no makeMove sets a castling-right bit: a bit that is clear stays
\* clear in the successor position.
C2_CastlesNonIncreasing ==
    [][\A n \in 0..3 : Bit(board'.castles, n) <= Bit(board.castles, n)]_vars

\* C2 witness: a makeMove cleared a castling right while another was set.
C2_Witness ==
    /\ last.kind # "none"
    /\ board.castles # 0
    /\ board.castles < prev.castles

\* the moved piece of the last makeMove was a pawn advancing two rows
LastDoubleAdvance ==
    /\ prev.sq[moveSrc(last.move)] % 8 = PAWN
    /\ Col(moveSrc(last.move)) = Col(moveDest(last.move))
    /\ Abs(Row(moveSrc(last.move)) - Row(moveDest(last.move))) = 2

\* C3: after a makeMove the en-passant target is set only if the move was a
\* pawn double-advance, to the square the pawn skipped; a target never
\* survives the next makeMove.
C3_EnPassantOnePly ==
    last.kind # "none" =>
        /\ board.ep # 0 =>
               /\ LastDoubleAdvance
               /\ 2 * board.ep = moveSrc(last.move) + moveDest(last.move)
        /\ ~LastDoubleAdvance => board.ep = 0
        /\ prev.ep # 0 => board.ep # prev.ep

\* C3 witness: a target set by one makeMove was cleared by the next.
C3_Witness ==
    /\ ply = 2
    /\ prev.ep # 0
    /\ prev.sq[prev.ep] = 0
    /\ board.ep = 0

\* the scenario e2e4 e7e5 g1f3 from the standard start, as Engine.position
\* plays it
StandardStart == createFromFen(STARTING_FEN)
AfterE2E4 == makeMoveStr(StandardStart, << "e", "2", "e", "4" >>)
AfterE7E5 == makeMoveStr(AfterE2E4, << "e", "7", "e", "5" >>)
AfterG1F3 == makeMoveStr(AfterE7E5, << "g", "1", "f", "3" >>)

\* C4: every makeMove, on a packed move or on text, returns a position whose
\* side-to-move bit is the negation of the input's; after e2e4 e7e5 g1f3
\* from the standard start black is to move.
C4_SideAlternates ==
    /\ last.kind # "none" => board.wtm = 1 - prev.wtm
    /\ AfterG1F3.wtm = 0

\* C4 witness: two makeMove calls in a row, the second on text.
C4_Witness ==
    /\ ply = 2
    /\ last.kind = "str"
    /\ board.wtm = 1 - prev.wtm

\* C5: from the standard starting position getLegalMoves returns exactly 20
\* moves, and the move sequences got by applying moves of getLegalMoves again
\* and again number 400 at depth 2, 8902 at depth 3 and 197281 at depth 4.
C5_StandardStartPerft ==
    /\ (board = StandardStart /\ cached) => Len(legalMoves) = 20
    /\ (ply = 0 /\ ~cached) =>
          /\ board = StandardStart
          /\ perft(board, 1) = 20
          /\ perft(board, 2) = 400
          /\ perft(board, 3) = 8902
          /\ perft(board, 4) = 197281

\* C5 witness: getLegalMoves has answered on the standard start, with 20
\* moves of which 16 are pawn moves.
C5_Witness ==
    /\ ply = 0
    /\ board = StandardStart
    /\ cached
    /\ ~crashed
    /\ Len(legalMoves) = 20
    /\ Len(SelectSeq(legalMoves, LAMBDA m : Field(m, SRC_PIECE, 3) = PAWN)) = 16

\* C6 (as the claim states it): isCheckMate is true exactly when getLegalMoves
\* is empty and the king of the side to move is attacked by an enemy piece, a
\* pawn included; Engine.go reports a position without legal moves as mate
\* when the king is attacked and as stalemate when it is not.
C6_MateIffKingAttacked ==
    /\ (cached /\ ~crashed /\ OneKingEach(board.sq)) =>
          ((isCheckMate(board, legalMoves) = "mate")
             <=> (Len(legalMoves) = 0 /\ KingAttacked(board.sq, board.wtm)))
    /\ (out # "" /\ OneKingEach(board.sq)) =>
          /\ Len(legalMoves) = 0
          /\ (out = "CHECK MATED SON") <=> KingAttacked(board.sq, board.wtm)
          /\ (out = "stale mate...??") <=> ~KingAttacked(board.sq, board.wtm)

\* the king's start, transit and destination squares of the castle that
\* castling-right bit n allows (bits 0, 1: black k, q; bits 2, 3: white K, Q)
CastlePath(n) ==
    CASE n = 0 -> << 4, 5, 6 >>
      [] n = 1 -> << 4, 3, 2 >>
      [] n = 2 -> << 60, 61, 62 >>
      [] n = 3 -> << 60, 59, 58 >>
IsCastleOf(move, n) ==
    /\ Field(move, SRC_PIECE, 3) = KING
    /\ moveSrc(move) = CastlePath(n)[1]
    /\ moveDest(move) = CastlePath(n)[3]

\* C7 (as the claim states it): when a castling right of the side to move is
\* set but the king's start, transit or destination square is attacked by an
\* enemy piece of any kind, getLegalMoves holds no such castle move.
C7_NoCastleThroughAttack ==
    (cached /\ ~crashed) =>
        \A n \in 0..3 :
            (/\ Bit(board.castles, n) = 1
             /\ n \div 2 = board.wtm
             /\ \E i \in 1..3 :
                    AttackedBy(board.sq, CastlePath(n)[i], 1 - board.wtm))
            => \A k \in 1..Len(legalMoves) : ~IsCastleOf(legalMoves[k], n)

\* the promotion piece the last move asked for (0: none)
RequestedPromo ==
    IF last.kind = "str" THEN textPromo(last.text) ELSE movePromo(last.move)

\* C8 (as the claim states it): after makeMove has moved a pawn onto the last
\* rank, the destination holds a piece of the mover's colour of the kind the
\* move asked for, a queen when it asked for none.
C8_PromotionPiece ==
    (/\ last.kind # "none"
     /\ pieceType(prev.sq[moveSrc(last.move)]) = PAWN
     /\ isBackRank(moveDest(last.move)))
    => board.sq[moveDest(last.move)]
         = 8 * prev.wtm
           + (IF RequestedPromo = 0 THEN QUEEN ELSE RequestedPromo)

\* the board after the pawn on `from` has captured en passant onto `target`
EpResult(sq, from, target) ==
    [i \in 0..63 |->
        IF i = target THEN sq[from]
        ELSE IF i = from \/ i = 8 * Row(from) + Col(target) THEN 0
        ELSE sq[i]]
\* the pawns of the side to move that can capture onto the en-passant target
\* without exposing their own king
EpCapturers(self) ==
    { from \in 0..63 :
        /\ self.sq[from] = PAWN + 8 * self.wtm
        /\ PieceAttacks(self.sq, from, self.ep)
        /\ ~KingAttacked(EpResult(self.sq, from, self.ep), self.wtm) }
OntoTarget(self, moves) == SelectSeq(moves, LAMBDA m : moveDest(m) = self.ep)
PawnOntoTarget(self, moves) ==
    SelectSeq(moves, LAMBDA m : /\ moveDest(m) = self.ep
                                /\ Field(m, SRC_PIECE, 3) = PAWN)
\* the move is flagged as a capture of a pawn, and makeMove of it, packed or
\* as text, takes the enemy pawn beside the capturing pawn off the board and
\* puts the capturing pawn on the target, which was empty
EpCaptureDone(self, m, after) ==
    /\ Bit(m, MOVE_META) = 1
    /\ Field(m, DEST_PIECE, 3) = PAWN
    /\ self.sq[8 * Row(moveSrc(m)) + Col(self.ep)] = PAWN + 8 * (1 - self.wtm)
    /\ self.sq[self.ep] = 0
    /\ after.sq = EpResult(self.sq, moveSrc(m), self.ep)
    /\ makeMoveStr(self, moveStr(m)).sq = after.sq

\* C9 (as the claim states it): with the en-passant target set and exactly
\* one pawn able to capture onto it, getLegalMoves holds exactly one move
\* onto the target square, and it is the en-passant capture.
C9_OneMoveOntoTarget ==
    (cached /\ ~crashed /\ board.ep # 0
        /\ Cardinality(EpCapturers(board)) = 1)
    => /\ Len(OntoTarget(board, legalMoves)) = 1
       /\ EpCaptureDone(board, OntoTarget(board, legalMoves)[1],
                        makeMove(board, OntoTarget(board, legalMoves)[1]))

\* C9, amended: with the en-passant target set and exactly one pawn able to
\* capture onto it without exposing its king, getLegalMoves holds exactly one
\* pawn move onto the target square; it is flagged as a capture of a pawn,
\* and makeMove of it removes the enemy pawn on the capturing pawn's rank and
\* the target's file and leaves the capturing pawn on the target.
C9_OnePawnMoveOntoTarget ==
    (cached /\ ~crashed /\ board.ep # 0
        /\ Cardinality(EpCapturers(board)) = 1)
    => /\ Len(PawnOntoTarget(board, legalMoves)) = 1
       /\ EpCaptureDone(board, PawnOntoTarget(board, legalMoves)[1],
                        makeMove(board, PawnOntoTarget(board, legalMoves)[1]))

\* C9 witness: getLegalMoves has answered on a position with one en-passant
\* capturer where another piece can move onto the target square as well.
C9_Witness ==
    /\ cached
    /\ ~crashed
    /\ board.ep # 0
    /\ Cardinality(EpCapturers(board)) = 1
    /\ Len(PawnOntoTarget(board, legalMoves)) = 1
    /\ Len(OntoTarget(board, legalMoves)) = 2

\* the list computeLegalMoves holds before it sorts: generation order
Generated(self) == checkOrRaise(self, piecesFrom(self, 0, NUM_SQUARES - 1))
Checks(moves) == SelectSeq(moves, givesCheck)
NonChecks(moves) == SelectSeq(moves, LAMBDA m : ~givesCheck(m))
WithMeta(moves, v) == SelectSeq(moves, LAMBDA m : moveMeta(m) = v)
ChecksFirst(moves) ==
    \A i, j \in 1..Len(moves) :
        (givesCheck(moves[i]) /\ ~givesCheck(moves[j])) => i < j
TwoGroupsStable(sorted, generated) ==
    /\ Checks(sorted) = Checks(generated)
    /\ NonChecks(sorted) = NonChecks(generated)
MetaNonIncreasing(moves) ==
    \A i, j \in 1..Len(moves) : i < j => moveMeta(moves[i]) >= moveMeta(moves[j])
EqualMetaStable(sorted, generated) ==
    \A v \in 0..15 : WithMeta(sorted, v) = WithMeta(generated, v)

\* C10 (as the claim states it): in the list of getLegalMoves the moves
\* flagged as giving check precede all others, and within each of the two
\* groups the moves keep their generation order.
C10_ChecksFirstStable ==
    (cached /\ ~crashed) =>
        /\ ChecksFirst(legalMoves)
        /\ TwoGroupsStable(legalMoves, Generated(board))

\* C10, amended: the list of getLegalMoves is in non-increasing order of the
\* four meta bits (promotion 8, check 4, castle 2, capture 1), and moves of
\* equal meta bits keep their generation order.
C10_SortedByMetaStable ==
    (cached /\ ~crashed) =>
        /\ MetaNonIncreasing(legalMoves)
        /\ EqualMetaStable(legalMoves, Generated(board))

\* C10 witness: a list the sort has reordered, holding moves with and
\* without the check flag, where a capture generated after a quiet move of
\* the same group has been moved in front of it.
C10_Witness ==
    /\ cached
    /\ ~crashed
    /\ Len(Checks(legalMoves)) > 0
    /\ Len(NonChecks(legalMoves)) > 0
    /\ legalMoves # Generated(board)
    /\ NonChecks(legalMoves) # NonChecks(Generated(board))

\* C11: makeMove leaves the bits of the position it is called on unchanged
\* (squares, side to move, castling rights, en-passant target) and returns a
\* position that is a new value; getLegalMoves, which fills the cache, leaves
\* the bits of its position unchanged.
C11_CalledPositionUnchanged ==
    [][ /\ ply' = ply + 1 =>
              /\ prev'.sq = board.sq /\ prev'.wtm = board.wtm
              /\ prev'.castles = board.castles /\ prev'.ep = board.ep
              /\ board' # prev'
        /\ (~cached /\ cached') => board' = board ]_vars

\* C11 witness: makeMove has returned a position with other squares than the
\* one it was called on, and getLegalMoves has filled the cache of the new
\* position.
C11_Witness ==
    /\ last.kind = "int"
    /\ ply = MaxPly
    /\ prev.sq # board.sq
    /\ cached
    /\ Len(legalMoves) > 0

\* the text names a legal move of the position: source, destination and,
\* for a promotion, the letter of the piece
WordIsLegal(self, text) ==
    LET moves == computeLegalMoves(self)
    IN  /\ ~hasRaised(moves)
        /\ \E k \in 1..Len(moves) :
              /\ moveSrc(moves[k]) = algebraicToIndex(SubSeq(text, 1, 2))
              /\ moveDest(moves[k]) = algebraicToIndex(SubSeq(text, 3, 4))
              /\ IF movePromo(moves[k]) = 0 THEN Len(text) = 4
                 ELSE Len(text) = 5 /\ text[5] \in DOMAIN PIECE_MAP
                      /\ PIECE_MAP[text[5]] = movePromo(moves[k])

\* C12: move text that matches no legal move of the position produces no
\* successor position: every position makeMove has returned for a word of a
\* position line came from a word naming a legal move of the position it was
\* applied to.
C12_UnknownMoveRejected ==
    last.kind = "word" => WordIsLegal(prev, last.text)

\* the corner the rook of the castle of right n starts from
CastleCorner(n) == CASE n = 0 -> 7 [] n = 1 -> 0 [] n = 2 -> 63 [] n = 3 -> 56

\* C13: after makeMove of a castle move taken from the list getLegalMoves
\* returned, check flag included, the king stands on its castled square, the
\* rook stands on the square the king crossed, the rook's corner is empty
\* and both castling rights of the mover are clear.
C13_CastleRelocatesRook ==
    \A n \in 0..3 :
        (/\ last.kind = "int"
         /\ Bit(last.move, MOVE_META + 1) = 1
         /\ IsCastleOf(last.move, n))
        => /\ board.sq[CastlePath(n)[3]] = KING + 8 * prev.wtm
           /\ board.sq[CastlePath(n)[2]] = ROOK + 8 * prev.wtm
           /\ board.sq[CastleCorner(n)] = 0
           /\ Bit(board.castles, 2 * prev.wtm) = 0
           /\ Bit(board.castles, 2 * prev.wtm + 1) = 0

\* C14: after makeMove has moved a piece onto an original rook square of the
\* opponent (a8 or h8 when white moves, a1 or h1 when black moves), the
\* opponent's castling right of that wing is clear.
C14_CornerCaptureClearsRight ==
    \A n \in 0..3 :
        (/\ last.kind \in { "int", "str" }
         /\ n \div 2 # prev.wtm
         /\ moveDest(last.move) = CastleCorner(n))
        => Bit(board.castles, n) = 0

\* C15: when makeMove moves a rook, the castling right of the mover whose
\* corner is the source square is clear afterwards, and no other right of
\* the mover is cleared by the move.
C15_RookClearsOwnCornerRight ==
    (/\ last.kind \in { "int", "str" }
     /\ pieceType(prev.sq[moveSrc(last.move)]) = ROOK)
    => \A n \in { 2 * prev.wtm, 2 * prev.wtm + 1 } :
          /\ moveSrc(last.move) = CastleCorner(n) => Bit(board.castles, n) = 0
          /\ (Bit(prev.castles, n) = 1 /\ Bit(board.castles, n) = 0)
                => moveSrc(last.move) = CastleCorner(n)

\* C16: isSquareAttacked(index, target) is true exactly when a piece of the
\* colour opposite to target attacks the square under the movement rules of
\* chess, and gives the same answer on the board with the other side to
\* move.
C16_AttackMatchesRules ==
    \A index \in 0..(NUM_SQUARES - 1) : \A target \in { KING, KING + 8 } :
        /\ isSquareAttacked(board, index, target)
              <=> AttackedBy(board.sq, index, 1 - pieceSide(target))
        /\ isSquareAttacked(board, index, target)
              <=> isSquareAttacked([board EXCEPT !.wtm = 1 - @], index, target)

\* C17: in a position with one king per colour, a move of the list
\* getLegalMoves returned carries the check flag exactly when, in the
\* position makeMove returns for it, the king of the side then to move is
\* attacked by a piece of the side that moved.  Stated for the moves that
\* are not castles, whose resulting position is the subject of C13.
C17_CheckFlagMatchesAttack ==
    (cached /\ ~crashed /\ OneKingEach(board.sq)) =>
        \A k \in 1..Len(legalMoves) :
            Bit(legalMoves[k], MOVE_META + 1) = 0 =>
            givesCheck(legalMoves[k])
              <=> KingAttacked(makeMove(board, legalMoves[k]).sq, 1 - board.wtm)

\* C18: for one position instance, however the getLegalMoves calls of the
\* threads sharing it interleave, the legal-move list is computed at most
\* once and the cache is assigned at most once.
C18_ComputedOnce ==
    threads.computes <= 1 /\ threads.assigns <= 1

\* C19: in a position reached from the standard start by moves taken from
\* getLegalMoves, a set castling right means that the king of that side is
\* on its e-file square and a rook of that side on the corner of that
\* wing; and getLegalMoves holds no castle move whose corner rook is
\* missing.
C19_RightImpliesKingAndRook ==
    \A n \in 0..3 :
        /\ Bit(board.castles, n) = 1 =>
              /\ board.sq[CastlePath(n)[1]] = KING + 8 * (n \div 2)
              /\ board.sq[CastleCorner(n)] = ROOK + 8 * (n \div 2)
        /\ (cached /\ ~crashed) =>
              \A k \in 1..Len(legalMoves) :
                  (Bit(legalMoves[k], MOVE_META + 1) = 1
                   /\ IsCastleOf(legalMoves[k], n))
                  => board.sq[CastleCorner(n)] = ROOK + 8 * (n \div 2)

\* the last move was a castle: the king went two columns along its rank
LastIsCastle ==
    /\ pieceType(prev.sq[moveSrc(last.move)]) = KING
    /\ Abs(Col(moveSrc(last.move)) - Col(moveDest(last.move))) = 2

\* the last move was a pawn move onto the en-passant target that was set
LastOntoSetTarget ==
    /\ pieceType(prev.sq[moveSrc(last.move)]) = PAWN
    /\ prev.ep # 0
    /\ moveDest(last.move) = prev.ep

\* C20: a move that is neither a castle nor a pawn move onto a set
\* en-passant target changes the source and the destination square only;
\* every other square holds after makeMove what it held before.
C20_OnlySourceAndDestChange ==
    (last.kind \in { "int", "str" } /\ ~LastIsCastle /\ ~LastOntoSetTarget)
    => \A i \in 0..(NUM_SQUARES - 1) :
          (i # moveSrc(last.move) /\ i # moveDest(last.move))
          => board.sq[i] = prev.sq[i]

\* C21: a move of a piece that is neither a king nor a rook, to a square
\* that is not an original rook square, leaves the four castling rights as
\* they were.
C21_OtherMovesKeepRights ==
    (/\ last.kind \in { "int", "str" }
     /\ pieceType(prev.sq[moveSrc(last.move)]) \notin { KING, ROOK }
     /\ \A n \in 0..3 : moveDest(last.move) # CastleCorner(n))
    => board.castles = prev.castles

\* C22: for every move of the list getLegalMoves returned, makeMove of the
\* move's text moveStr(m) returns the same position as makeMove of the
\* packed move m.
C22_TextMoveSameAsPacked ==
    (cached /\ ~crashed) =>
        \A k \in 1..Len(legalMoves) :
            makeMoveStr(board, moveStr(legalMoves[k]))
              = makeMove(board, legalMoves[k])

====
